---- MODULE Spec2Model ----
(***************************************************************************)
(* A model of telegram/_files/inputfile.py: the InputFile class, its       *)
(* constructor and its accessors field_tuple, is_image, is_file, to_dict.  *)
(*                                                                         *)
(* Python values are records [t, v]: t is the Python type, v the value as  *)
(* a sequence of tokens.  A str is a sequence of non-empty text tokens, so *)
(* the empty str is <<>>; in a path, a filename or a MIME type the         *)
(* separators "/" and "." are tokens of their own and no other token holds *)
(* one.  A bytes value is a sequence of byte chunks of known width.        *)
(***************************************************************************)
EXTENDS Integers, Sequences, FiniteSets, TLC

VARIABLES heap, wants, uuidCount, calls, last

vars == <<heap, wants, uuidCount, calls, last>>

\* ------------------------------------------------------------ bounds
\* Constructor calls in one behaviour of Spec.
MaxCalls == 2
\* Longest generated path / filename, in tokens.
MaxLen == 2

\* ------------------------------------------------------ Python values
None == [t |-> "NoneType", v |-> <<>>]
Str(s) == [t |-> "str", v |-> s]
Bytes(b) == [t |-> "bytes", v |-> b]
Bool(b) == [t |-> "bool", v |-> IF b THEN <<"True">> ELSE <<"False">>]
PyInt(n) == [t |-> "int", v |-> <<ToString(n)>>]

\* Python truthiness, as `if x` / `not x` / `x or y` evaluate it.
Truthy(x) ==
    CASE x.t = "NoneType" -> FALSE
      [] x.t = "bool" -> x.v = <<"True">>
      [] x.t = "int" -> x.v # <<"0">>
      [] OTHER -> Len(x.v) > 0

\* isinstance(x, int): bool is a subclass of int.
IsInstanceInt(x) == x.t \in {"int", "bool"}

\* A bytes object passed as `obj`.
BytesObj(b) ==
    [kind |-> "bytes", data |-> Bytes(b), pos |-> 0, reads |-> 0,
     hasName |-> FALSE, name |-> None]

\* A readable stream: data is all it holds, pos the chunks already consumed,
\* reads the calls of read() so far, name its name attribute when hasName.
StreamObj(data, pos, hasName, name) ==
    [kind |-> "stream", data |-> data, pos |-> pos, reads |-> 0,
     hasName |-> hasName, name |-> name]

\* Any other object (None, a str): no read, no name.
PlainObj(val) ==
    [kind |-> val.t, data |-> val, pos |-> 0, reads |-> 0,
     hasName |-> FALSE, name |-> None]

\* obj.read(): everything from the current position, which moves to the end.
StreamRead(obj) ==
    [result |-> [t |-> obj.data.t,
                 v |-> SubSeq(obj.data.v, obj.pos + 1, Len(obj.data.v))],
     obj |-> [obj EXCEPT !.pos = Len(obj.data.v), !.reads = @ + 1]]

\* --------------------------------------------------------- imghdr.what
\* Width in bytes of a chunk.
Width(tok) ==
    CASE tok = "PNGSIG" -> 8
      [] tok = "GIF89a" -> 6
      [] tok = "hdr6" -> 6
      [] tok = "BM" -> 2
      [] OTHER -> 4

RECURSIVE Offset(_, _)
\* Byte offset at which chunk i of h starts.
Offset(h, i) == IF i <= 1 THEN 0 ELSE Offset(h, i - 1) + Width(h[i - 1])

\* h[off : off + len(tok)] == tok
At(h, off, tok) == \E i \in 1..Len(h) : h[i] = tok /\ Offset(h, i) = off

\* imghdr.what(None, stream): four of imghdr's header tests, in its order
\* (jpeg, png, gif, bmp), on the first 32 bytes, which hold every content
\* used here whole.  A value that is not bytes makes the first
\* startswith(bytes) raise TypeError.
ImghdrWhat(stream) ==
    IF stream.t # "bytes" THEN [raised |-> "TypeError", image |-> None]
    ELSE LET h == stream.v
         IN [raised |-> "",
             image |->
                 CASE At(h, 6, "JFIF") -> Str(<<"jpeg">>)
                   [] At(h, 0, "PNGSIG") -> Str(<<"png">>)
                   [] At(h, 0, "GIF89a") -> Str(<<"gif">>)
                   [] At(h, 0, "BM") -> Str(<<"bmp">>)
                   [] OTHER -> None]

\* InputFile.is_image without its except clause.
is_image_uncaught(stream) ==
    LET r == ImghdrWhat(stream)
    IN [raised |-> r.raised,
        value |-> IF r.raised = "" /\ Truthy(r.image)
                  THEN Str(<<"image", "/">> \o r.image.v) ELSE None]

\* InputFile.is_image: 'image/<subtype>', or None; any exception is caught.
is_image(stream) ==
    LET r == ImghdrWhat(stream)
    IN IF r.raised # "" THEN [raised |-> "", value |-> None]
       ELSE IF Truthy(r.image)
            THEN [raised |-> "", value |-> Str(<<"image", "/">> \o r.image.v)]
            ELSE [raised |-> "", value |-> None]

\* ------------------------------------------------- pathlib.Path(x).name
\* str.rfind on tokens: the last index of tok in s, 0 when there is none.
RFind(s, tok) ==
    LET hits == {i \in 1..Len(s) : s[i] = tok}
    IN IF hits = {} THEN 0 ELSE CHOOSE i \in hits : \A j \in hits : j <= i

\* str.find on tokens: the first index of tok in s, 0 when there is none.
Find(s, tok) ==
    LET hits == {i \in 1..Len(s) : s[i] = tok}
    IN IF hits = {} THEN 0 ELSE CHOOSE i \in hits : \A j \in hits : i <= j

RECURSIVE Split(_)
\* s.split('/')
Split(s) ==
    LET i == Find(s, "/")
    IN IF i = 0 THEN <<s>>
       ELSE <<SubSeq(s, 1, i - 1)>> \o Split(SubSeq(s, i + 1, Len(s)))

IsPart(seg) == seg # <<>> /\ seg # <<".">>

\* PurePosixPath(s).name: the last path segment, empty and '.' segments
\* dropped by the parser; '' when no segment is left.
PathName(s) ==
    LET parts == SelectSeq(Split(s), IsPart)
    IN IF parts = <<>> THEN <<>> ELSE parts[Len(parts)]

\* ------------------------------------------------ mimetypes.guess_type
\* posixpath.splitext: the extension starts at the last dot of the last
\* segment, leading dots of that segment not counted.
SplitExt(p) ==
    LET sepIndex == RFind(p, "/")
        dotIndex == RFind(p, ".")
    IN IF dotIndex > sepIndex
          /\ \E k \in (sepIndex + 1)..(dotIndex - 1) : p[k] # "."
       THEN [root |-> SubSeq(p, 1, dotIndex - 1),
             ext |-> SubSeq(p, dotIndex, Len(p))]
       ELSE [root |-> p, ext |-> <<>>]

\* str.lower on an extension's tokens.
Lower(s) == [i \in 1..Len(s) |-> IF s[i] = "PDF" THEN "pdf" ELSE s[i]]

\* mimetypes.types_map, three of its entries; it has none for ".x".
TypesMap(ext) ==
    CASE ext = <<".", "pdf">> -> Str(<<"application", "/", "pdf">>)
      [] ext = <<".", "txt">> -> Str(<<"text", "/", "plain">>)
      [] ext = <<".", "png">> -> Str(<<"image", "/", "png">>)
      [] OTHER -> None

\* mimetypes.guess_type(url)[0]: an encoding suffix (encodings_map, here
\* '.gz') is stripped, the extension lower-cased and looked up.
GuessType(url) ==
    LET first == SplitExt(url)
        ext == IF first.ext = <<".", "gz">> THEN SplitExt(first.root).ext
               ELSE first.ext
    IN TypesMap(Lower(ext))

DEFAULT_MIME_TYPE == Str(<<"application", "/", "octet-stream">>)

\* str.replace('/', '.')
ReplaceSlash(s) == [i \in 1..Len(s) |-> IF s[i] = "/" THEN "." ELSE s[i]]

\* --------------------------------------------------- InputFile.__init__
\* uuid4().hex of the n-th call of uuid4: an identifier no other call
\* returns (uuid4 draws 122 random bits; a repeat is taken as impossible).
Uuid4Hex(n) == <<ToString(n)>>

\* The read that reads the stream a second time and keeps that result.
ReadContentTwice(obj) ==
    IF obj.kind = "bytes" THEN [content |-> obj.data, obj |-> obj]
    ELSE LET once == StreamRead(obj)
             twice == StreamRead(once.obj)
         IN [content |-> twice.result, obj |-> twice.obj]

\* input_file_content: the bytes themselves, or obj.read().
ReadContent(obj) ==
    IF obj.kind = "bytes" THEN [content |-> obj.data, obj |-> obj]
    ELSE LET r == StreamRead(obj)
         IN [content |-> r.result, obj |-> r.obj]

\* The attach token that is the same for every descriptor.
AttachTokenShared(attach, n) ==
    IF Truthy(attach) THEN Str(<<"attached">> \o Uuid4Hex(0)) ELSE None

\* self.attach = 'attached' + uuid4().hex if attach else None
AttachToken(attach, n) ==
    IF Truthy(attach) THEN Str(<<"attached">> \o Uuid4Hex(n)) ELSE None

\* The stream's name taken whether or not a filename was passed.
ResolveFilenameNameFirst(obj, filename) ==
    IF obj.hasName /\ ~IsInstanceInt(obj.name)
    THEN IF obj.name.t # "str"
         THEN [raised |-> "TypeError", filename |-> filename]
         ELSE [raised |-> "", filename |-> Str(PathName(obj.name.v))]
    ELSE [raised |-> "", filename |-> filename]

\* The filename after the name lookup: Path(obj.name).name when no filename
\* was passed and obj has a name that is no int.  Path() of a name that is
\* not a str (None, bytes) raises TypeError.
ResolveFilename(obj, filename) ==
    IF ~Truthy(filename) /\ obj.hasName /\ ~IsInstanceInt(obj.name)
    THEN IF obj.name.t # "str"
         THEN [raised |-> "TypeError", filename |-> filename]
         ELSE [raised |-> "", filename |-> Str(PathName(obj.name.v))]
    ELSE [raised |-> "", filename |-> filename]

\* The mimetype that asks the filename before the content.
ResolveMimetypeNameFirst(image_mime_type, filename) ==
    IF Truthy(filename)
    THEN IF Truthy(GuessType(filename.v)) THEN GuessType(filename.v)
         ELSE IF Truthy(image_mime_type) THEN image_mime_type
              ELSE DEFAULT_MIME_TYPE
    ELSE IF Truthy(image_mime_type) THEN image_mime_type
         ELSE DEFAULT_MIME_TYPE

\* The mimetype that never asks the filename.
ResolveMimetypeNoGuess(image_mime_type, filename) ==
    IF Truthy(image_mime_type) THEN image_mime_type ELSE DEFAULT_MIME_TYPE

\* self.mimetype: the sniffed image type, else the guess from the filename
\* or the default, else the default.
ResolveMimetype(image_mime_type, filename) ==
    IF Truthy(image_mime_type) THEN image_mime_type
    ELSE IF Truthy(filename)
         THEN IF Truthy(GuessType(filename.v)) THEN GuessType(filename.v)
              ELSE DEFAULT_MIME_TYPE
         ELSE DEFAULT_MIME_TYPE

\* The filename kept as resolved, with no fallback.
FinalFilenameNoFallback(filename, mimetype) == filename

\* self.filename = filename or self.mimetype.replace('/', '.')
FinalFilename(filename, mimetype) ==
    IF Truthy(filename) THEN filename ELSE Str(ReplaceSlash(mimetype.v))

\* A descriptor none of whose slots is set.
NoSelf ==
    [input_file_content |-> None, filename |-> None, attach |-> None,
     mimetype |-> None]

\* InputFile(obj, filename, attach), n calls of uuid4 made before it:
\* raised is the exception it ends with ("" for none), self the descriptor
\* as the constructor leaves it (on an exception, with the slots assigned
\* until then), obj the source afterwards, uuid the calls of uuid4 made
\* after it.
InputFile_init(obj, filename, attach, n) ==
    LET rd == ReadContent(obj)
        att == AttachToken(attach, n)
        n2 == IF Truthy(attach) THEN n + 1 ELSE n
        fn == ResolveFilename(rd.obj, filename)
        img == is_image(rd.content)
        mimetype == ResolveMimetype(img.value, fn.filename)
        raised == IF fn.raised # "" THEN fn.raised ELSE img.raised
    IN [raised |-> raised,
        self |-> IF raised # ""
                 THEN [NoSelf EXCEPT !.input_file_content = rd.content,
                                     !.attach = att]
                 ELSE [input_file_content |-> rd.content,
                       filename |-> FinalFilename(fn.filename, mimetype),
                       attach |-> att,
                       mimetype |-> mimetype],
        obj |-> rd.obj,
        uuid |-> n2]

\* ------------------------------------------------------------ accessors
\* field_tuple with filename and mimetype exchanged.
field_tuple_swapped(self) ==
    <<self.mimetype, self.input_file_content, self.filename>>

\* InputFile.field_tuple
field_tuple(self) == <<self.filename, self.input_file_content, self.mimetype>>

\* InputFile.is_file: hasattr(obj, 'read')
is_file(obj) == Bool(obj.kind = "stream")

\* to_dict that returns the bare token.
to_dict_bare(self) == IF Truthy(self.attach) THEN self.attach ELSE None

\* InputFile.to_dict
to_dict(self) ==
    IF Truthy(self.attach) THEN Str(<<"attach://">> \o self.attach.v)
    ELSE None

\* --------------------------------------------------------------- inputs
BoundedSeq(S, n) == UNION {[1..k -> S] : k \in 0..n}

PathAlphabet == {"/", ".", "x", "pdf"}

\* Longer strings of interest, beside every string of at most MaxLen tokens.
ExtraStrings ==
    {<<"x", ".", "pdf">>, <<"notes", ".", "txt">>, <<"x", ".", "PDF">>,
     <<"x", ".", "txt", ".", "gz">>, <<"x", "/", "report", ".", "pdf">>,
     <<"x", ".", "png">>}

Strings == BoundedSeq(PathAlphabet, MaxLen) \cup ExtraStrings

\* Contents: images of each kind, signatures at a wrong offset, no image.
Contents ==
    {<<>>, <<"data">>, <<"PNGSIG", "data">>, <<"GIF89a">>,
     <<"hdr6", "JFIF">>, <<"BM", "data">>, <<"JFIF", "data">>,
     <<"data", "PNGSIG">>}

\* The name attribute of a stream: a path, a file descriptor number, True,
\* None (tempfile.SpooledTemporaryFile), bytes (open(b'a.txt')).
NameValues ==
    {Str(s) : s \in Strings}
        \cup {PyInt(3), Bool(TRUE), None, Bytes(<<"x", ".", "txt">>)}

\* Streams: binary ones, partly consumed or not, and a text one.
Streams ==
    {StreamObj(Bytes(<<"data", "PNGSIG">>), pos, FALSE, None) : pos \in 0..2}
        \cup {StreamObj(Str(<<"hello">>), 0, FALSE, None)}
        \cup {StreamObj(Bytes(<<"data", "PNGSIG">>), pos, TRUE, name) :
                 pos \in 0..2, name \in NameValues}
        \cup {StreamObj(Str(<<"hello">>), 0, TRUE, name) : name \in NameValues}

AllSources == {BytesObj(b) : b \in Contents} \cup Streams
AllFilenames == {None} \cup {Str(s) : s \in Strings}

FewSources ==
    {BytesObj(<<"PNGSIG", "data">>), BytesObj(<<"data">>),
     StreamObj(Bytes(<<"data">>), 0, TRUE, Str(<<"x", ".", "pdf">>))}
FewFilenames == {None, Str(<<"notes", ".", "txt">>)}

Attaches == {None, Bool(FALSE), Bool(TRUE)}

\* Arguments of the static methods.
SniffInputs ==
    {Bytes(<<"PNGSIG", "data">>), Bytes(<<"hdr6", "JFIF">>), Bytes(<<"data">>),
     Str(<<"hello">>), None}
FileInputs ==
    {BytesObj(<<"data">>), StreamObj(Bytes(<<"data">>), 0, FALSE, None),
     PlainObj(None)}

\* ---------------------------------------------------------------- state
\* heap: the descriptors constructed so far, in order of construction.
\* wants: the attach argument each of them was constructed with.
\* uuidCount: the calls of uuid4 so far.  calls: the constructor calls so far.
\* last: the last call made, with its arguments and its outcome; for a
\* constructor call, self is the place of the new descriptor in heap (0 when
\* the call raised), built the object as the call left it and after the
\* source as the call left it.
Init ==
    /\ heap = <<>>
    /\ wants = <<>>
    /\ uuidCount = 0
    /\ calls = 0
    /\ last = [op |-> "none", raised |-> ""]

\* InputFile(obj, filename, attach)
Construct(cap, Sources, Filenames) ==
    /\ calls < cap
    /\ \E obj \in Sources, filename \in Filenames, attach \in Attaches :
          LET r == InputFile_init(obj, filename, attach, uuidCount)
              ok == r.raised = ""
          IN /\ calls' = calls + 1
             /\ uuidCount' = r.uuid
             /\ heap' = IF ok THEN Append(heap, r.self) ELSE heap
             /\ wants' = IF ok THEN Append(wants, attach) ELSE wants
             /\ last' = [op |-> "__init__", obj |-> obj, filename |-> filename,
                         attach |-> attach, raised |-> r.raised,
                         self |-> IF ok THEN Len(heap) + 1 ELSE 0,
                         built |-> r.self, after |-> r.obj]

\* self.field_tuple
FieldTupleCall ==
    /\ \E i \in 1..Len(heap) :
          last' = [op |-> "field_tuple", self |-> i, raised |-> "",
                   value |-> field_tuple(heap[i])]
    /\ UNCHANGED <<heap, wants, uuidCount, calls>>

\* self.to_dict()
ToDictCall ==
    /\ \E i \in 1..Len(heap) :
          last' = [op |-> "to_dict", self |-> i, raised |-> "",
                   value |-> to_dict(heap[i])]
    /\ UNCHANGED <<heap, wants, uuidCount, calls>>

\* InputFile.is_image(stream)
IsImageCall ==
    /\ \E stream \in SniffInputs :
          LET r == is_image(stream)
          IN last' = [op |-> "is_image", arg |-> stream, raised |-> r.raised,
                      value |-> r.value]
    /\ UNCHANGED <<heap, wants, uuidCount, calls>>

\* InputFile.is_file(obj)
IsFileCall ==
    /\ \E obj \in FileInputs :
          last' = [op |-> "is_file", arg |-> obj, raised |-> "",
                   value |-> is_file(obj)]
    /\ UNCHANGED <<heap, wants, uuidCount, calls>>

\* Several descriptors, constructed from a few inputs.
Next ==
    \/ Construct(MaxCalls, FewSources, FewFilenames)
    \/ FieldTupleCall
    \/ ToDictCall
    \/ IsImageCall
    \/ IsFileCall

Spec == Init /\ [][Next]_vars

\* One constructor call, over every source, filename and attach flag.
NextCtor ==
    \/ Construct(1, AllSources, AllFilenames)
    \/ FieldTupleCall
    \/ ToDictCall

SpecCtor == Init /\ [][NextCtor]_vars

\* ----------------------------------------------------------- properties
\* The last call was a constructor call / one that returned a descriptor.
CtorDone == last.op = "__init__"
CtorOk == CtorDone /\ last.raised = ""
\* The descriptor the last constructor call returned.
Built == heap[last.self]

\* What a source holds for the constructor: the bytes, or what is left of
\* the stream.
SourceContent(obj) ==
    IF obj.kind = "bytes" THEN obj.data
    ELSE [t |-> obj.data.t,
          v |-> SubSeq(obj.data.v, obj.pos + 1, Len(obj.data.v))]

\* The subtype the signature sniff recognises in a content, None for none.
Sniffed(content) ==
    IF ImghdrWhat(content).raised # "" THEN None
    ELSE ImghdrWhat(content).image

\* The source's name is a name: it has none, or it is a str or an int.
WellNamed(obj) == ~obj.hasName \/ obj.name.t \in {"str", "int", "bool"}

\* The base name of the source's name, None when the source has no name,
\* an integer handle for one, or a name whose base name is empty.
BaseNameOf(obj) ==
    IF obj.hasName /\ ~IsInstanceInt(obj.name) /\ PathName(obj.name.v) # <<>>
    THEN Str(PathName(obj.name.v))
    ELSE None

\* The filename resolved for a call: the one supplied, else the one derived
\* from the stream's name, else None.
Resolved(obj, filename) ==
    IF Truthy(filename) THEN filename ELSE BaseNameOf(obj)

C3_FilenamePriority ==
    /\ CtorOk =>
          Built.filename
            = IF Truthy(last.filename) THEN last.filename
              ELSE IF Truthy(BaseNameOf(last.obj)) THEN BaseNameOf(last.obj)
                   ELSE Str(ReplaceSlash(Built.mimetype.v))
    /\ (CtorDone /\ last.filename = Str(<<>>)) =>
          LET n == IF Truthy(last.attach) THEN uuidCount - 1 ELSE uuidCount
              omitted == InputFile_init(last.obj, None, last.attach, n)
          IN /\ omitted.raised = last.raised
             /\ omitted.obj = last.after
             /\ last.raised = "" => omitted.self = Built

\* The empty filename was passed with a stream whose name has no base name,
\* and the filename came from the default mimetype.
C3_Witness ==
    /\ CtorOk
    /\ last.filename = Str(<<>>)
    /\ last.obj.hasName
    /\ last.obj.name = Str(<<"/">>)
    /\ Built.filename = Str(<<"application", ".", "octet-stream">>)

\* C4: a descriptor constructed with attach true holds 'attached' followed
\* by the hex of a uuid4 call, one constructed with attach false or
\* omitted holds None, and no two descriptors hold the same token.
C4_AttachTokens ==
    /\ \A i \in 1..Len(heap) :
          IF Truthy(wants[i])
          THEN /\ heap[i].attach.t = "str"
               /\ Len(heap[i].attach.v) > 1
               /\ heap[i].attach.v[1] = "attached"
               /\ \E n \in 0..(uuidCount - 1) :
                     Tail(heap[i].attach.v) = Uuid4Hex(n)
          ELSE heap[i].attach = None
    /\ \A i, j \in 1..Len(heap) :
          (i # j /\ Truthy(wants[i]) /\ Truthy(wants[j]))
              => heap[i].attach # heap[j].attach

\* Two descriptors were constructed with attach true, one after the other.
C4_Witness ==
    /\ Len(heap) > 1
    /\ Truthy(wants[1])
    /\ Truthy(wants[2])

\* to_dict returned on self what it has to return.
ToDictRight ==
    last.op = "to_dict" =>
        /\ last.raised = ""
        /\ last.value
             = IF Truthy(wants[last.self])
               THEN Str(<<"attach://">> \o heap[last.self].attach.v)
               ELSE None

\* Two calls of to_dict on one descriptor, one after the other, agree.
ToDictAgain ==
    (last.op = "to_dict" /\ last'.op = "to_dict" /\ last'.self = last.self)
        => last'.value = last.value

\* C5: to_dict returns None for a descriptor constructed with attach false
\* or omitted and 'attach://' followed by the descriptor's own token for one
\* constructed with attach true, and the same on every call.
C5_ToDict == []ToDictRight /\ [][ToDictAgain]_vars

\* to_dict was called on the second of two descriptors, both with a token.
C5_Witness ==
    /\ last.op = "to_dict"
    /\ last.self = 2
    /\ Truthy(wants[1])
    /\ Truthy(wants[2])
    /\ last.value = Str(<<"attach://">> \o heap[2].attach.v)

\* C6: the constructor calls read() on a stream exactly once, which leaves
\* the stream exhausted, and keeps what that call returned as
\* input_file_content; on bytes it reads nothing and keeps the bytes.
C6_ReadOnce ==
    CtorDone =>
        IF last.obj.kind = "stream"
        THEN /\ last.after.reads = last.obj.reads + 1
             /\ last.after.pos = Len(last.obj.data.v)
             /\ last.after = [last.obj EXCEPT !.reads = last.after.reads,
                                              !.pos = last.after.pos]
             /\ last.built.input_file_content = SourceContent(last.obj)
             /\ last.raised = "" => Built = last.built
        ELSE /\ last.after = last.obj
             /\ last.raised = ""
             /\ last.built.input_file_content = last.obj.data
             /\ Built = last.built

\* A stream that was partly consumed was read to its end.
C6_Witness ==
    /\ CtorOk
    /\ last.obj.kind = "stream"
    /\ last.obj.pos = 1
    /\ last.after.reads = 1
    /\ last.after.pos = 2
    /\ Built.input_file_content = Bytes(<<"PNGSIG">>)

\* C7: filename and mimetype of every descriptor are non-empty strings.
C7_NonEmpty ==
    \A i \in 1..Len(heap) :
        /\ heap[i].filename.t = "str"
        /\ Len(heap[i].filename.v) > 0
        /\ heap[i].mimetype.t = "str"
        /\ Len(heap[i].mimetype.v) > 0

\* A descriptor was constructed from empty bytes with nothing to name it.
C7_Witness ==
    /\ CtorOk
    /\ last.obj = BytesObj(<<>>)
    /\ last.filename = None
    /\ Len(Built.filename.v) > 0

\* C8: no call ends with an error: not the constructor, whatever the
\* source's name is, and not field_tuple, is_image, is_file or to_dict.
C8_NoErrorSurfaced == last.raised = ""

\* is_image returned on its argument what it has to return.
IsImageRight ==
    last'.op = "is_image" =>
        /\ last'.raised = ""
        /\ last'.value
             = IF ImghdrWhat(last'.arg).raised # "" THEN None
               ELSE IF Truthy(ImghdrWhat(last'.arg).image)
                    THEN Str(<<"image", "/">> \o ImghdrWhat(last'.arg).image.v)
                    ELSE None
        /\ heap' = heap

\* C9: is_image raises nothing: it returns 'image/<subtype>' when the sniff
\* reports a subtype, None when it reports none and None when the sniff
\* fails, and it changes no descriptor.
C9_IsImageNeverRaises == [][IsImageRight]_vars

\* is_image was called with a value the sniff fails on.
C9_Witness ==
    /\ last.op = "is_image"
    /\ ImghdrWhat(last.arg).raised = "TypeError"
    /\ last.value = None
    /\ Len(heap) > 0

\* Every descriptor stays as it is, an accessor adds none, and field_tuple
\* returns (filename, input_file_content, mimetype).
ReadOnlyStep ==
    /\ \A i \in 1..Len(heap) : i <= Len(heap') /\ heap'[i] = heap[i]
    /\ last'.op \in {"field_tuple", "to_dict", "is_image", "is_file"} =>
          heap' = heap
    /\ last'.op = "field_tuple" =>
          last'.value = <<heap'[last'.self].filename,
                          heap'[last'.self].input_file_content,
                          heap'[last'.self].mimetype>>

\* C10: no call changes a field of a descriptor once constructed, and
\* field_tuple returns the triple of the descriptor's fields.
C10_ReadOnly == [][ReadOnlyStep]_vars

\* field_tuple was called on the first descriptor after a second was made.
C10_Witness ==
    /\ last.op = "field_tuple"
    /\ last.self = 1
    /\ Len(heap) > 1
    /\ last.value[1] = heap[1].filename

====
